---- MODULE Spec2Model ----
(***************************************************************************)
(* WebMonitor: BettingMonitor (monitor.py) and its Flask control surface   *)
(* (app.py).  The polling loop threads spawned by start(), the request     *)
(* handlers calling start()/stop(), the upstream API and the Telegram      *)
(* endpoint are the processes; the monitor's fields are the shared state.  *)
(*                                                                         *)
(* Each Python statement that reads or writes a shared field is taken as   *)
(* atomic (the interpreter lock); a thread can be pre-empted between       *)
(* statements, and always at a blocking call (HTTP request, sleep).        *)
(***************************************************************************)
EXTENDS Integers, Sequences, FiniteSets, TLC

VARIABLES
    running,          \* self.running
    thread,           \* self.thread: id of the last thread created, 0 = None
    notified_events,  \* self.notified_events
    recent_logs,      \* self.recent_logs
    stats,            \* self.stats
    file,             \* content of notified_events.json
    loops,            \* the monitor_loop threads, by the call that spawned them
    calls,            \* the control-surface calls (0 is the bootstrap thread)
    posts,            \* Telegram endpoint: sendMessage requests received, per event id
    delivered,        \* Telegram endpoint: sendMessage requests answered 200, per event id
    direct            \* the last call made on the monitor outside the loop: what was
                      \* called, with what, and what it returned

vars == <<running, thread, notified_events, recent_logs, stats, file, loops, calls,
          posts, delivered, direct>>

----------------------------------------------------------------------------
(* Bounds *)

MaxCalls == 2         \* control-surface calls after the bootstrap
MaxRequests == 2      \* polling iterations begun, over all loop threads

MaxDirectCalls == 3   \* calls made one after the other on the monitor outside the loop
MaxAppends == 150     \* log() calls made one after the other on a fresh monitor

LogCap == 100         \* deque(maxlen=100)

Calls == 0..MaxCalls
Threads == Calls
EventIds == {1, 2}

----------------------------------------------------------------------------
(* JSON values as Python sees them after json.loads *)

JNull == [t |-> "null"]
JNum(n) == [t |-> "num", n |-> n]
JStr(s) == [t |-> "str", s |-> s]         \* s: the text as a sequence of tokens
JArr(a) == [t |-> "arr", a |-> a]
JObj(f) == [t |-> "obj", f |-> f]
EmptyObj == JObj(<<>>)
EmptyArr == JArr(<<>>)

(* Outcome of a Python expression: a value or a raised exception *)
Ok(v) == [ok |-> TRUE, v |-> v]
Raise(e) == [ok |-> FALSE, exc |-> e]

(* d.get(k, default) *)
DictGet(d, k, default) ==
    IF d.t # "obj" THEN Raise("AttributeError")
    ELSE IF k \in DOMAIN d.f THEN Ok(d.f[k]) ELSE Ok(default)

(* d[k] for a string key *)
DictIndex(d, k) ==
    IF d.t = "obj" THEN (IF k \in DOMAIN d.f THEN Ok(d.f[k]) ELSE Raise("KeyError"))
    ELSE IF d.t \in {"arr", "str"} THEN Raise("TypeError")
    ELSE Raise("TypeError")

(* v[0] *)
Subscript0(v) ==
    CASE v.t = "arr" -> IF Len(v.a) = 0 THEN Raise("IndexError") ELSE Ok(v.a[1])
      [] v.t = "obj" -> Raise("KeyError")
      [] v.t = "str" -> IF Len(v.s) = 0 THEN Raise("IndexError") ELSE Ok(JStr(<<v.s[1]>>))
      [] OTHER -> Raise("TypeError")

RECURSIVE SetToSeq(_)
SetToSeq(S) ==
    IF S = {} THEN <<>>
    ELSE LET x == CHOOSE y \in S : TRUE IN <<x>> \o SetToSeq(S \ {x})

(* the items "for event in v" visits *)
Iterate(v) ==
    CASE v.t = "arr" -> Ok(v.a)
      [] v.t = "obj" -> Ok([i \in 1..Cardinality(DOMAIN v.f) |->
                               JStr(<<SetToSeq(DOMAIN v.f)[i]>>)])
      [] v.t = "str" -> Ok([i \in 1..Len(v.s) |-> JStr(<<v.s[i]>>)])
      [] OTHER -> Raise("TypeError")

----------------------------------------------------------------------------
(* Log buffer and statistics *)

(* A formatted message: its fixed text, the number and the exception it embeds *)
Msg(text, arg) == [text |-> text, arg |-> arg, exc |-> ""]
MsgExc(text, exc) == [text |-> text, arg |-> 0, exc |-> exc]
NoError == Msg("None", 0)

Entry(level, message) == [level |-> level, message |-> message]

(* as DequeAppend, for a deque without maxlen *)
DequeAppend_Unbounded(lg, e) == Append(lg, e)

(* deque.append with maxlen: the oldest entry is dropped when the deque is full *)
DequeAppend(lg, e) ==
    IF Len(lg) >= LogCap THEN Append(Tail(lg), e) ELSE Append(lg, e)

(* BettingMonitor.log *)
Log(lg, level, message) == DequeAppend(lg, Entry(level, message))

(* BettingMonitor.get_recent_logs: list(self.recent_logs), from the left end of the deque *)
GetRecentLogs(lg) == [i \in 1..Len(lg) |-> lg[i]]

RECURSIVE LogAll(_, _)
LogAll(lg, es) ==
    IF es = <<>> THEN lg ELSE LogAll(Log(lg, Head(es).level, Head(es).message), Tail(es))

InitStats == [start_time |-> FALSE, total_requests |-> 0, successful_requests |-> 0,
              events_found |-> 0, notifications_sent |-> 0, last_check |-> FALSE,
              last_error |-> NoError]

----------------------------------------------------------------------------
(* Text: a string is a sequence of tokens; str.lower() maps each token *)

LowerTok(tok) ==
    CASE tok = "PARA TER MENOS DE " -> "para ter menos de "
      [] tok = " GOLS NA PARTIDA" -> " gols na partida"
      [] tok = "Para Ter Menos De " -> "para ter menos de "
      [] tok = "BRAZIL" -> "brazil"
      [] tok = "Brazil" -> "brazil"
      [] tok = "Blocked" -> "blocked"
      [] OTHER -> tok

Lower(s) == [i \in 1..Len(s) |-> LowerTok(s[i])]
Contains(s, tok) == \E i \in 1..Len(s) : s[i] = tok

(* \d+(\.\d+)? *)
IsNumber(tok) == tok \in {"2.5", "3", "10", "0.5"}

NoMatch == [found |-> FALSE, group1 |-> ""]

(* self.pattern.search(home_team), pattern compiled with re.IGNORECASE:
   the leftmost "para ter menos de <number> gols na partida" *)
MatchAt(s, i) ==
    /\ i + 2 <= Len(s)
    /\ LowerTok(s[i]) = "para ter menos de "
    /\ IsNumber(s[i + 1])
    /\ LowerTok(s[i + 2]) = " gols na partida"

(* as PatternSearch, but "mais de" is taken for "menos de" too *)
PatternSearch_Loose(v) ==
    IF v.t # "str" THEN Raise("TypeError")
    ELSE IF \E i \in 1..Len(v.s) :
                /\ i + 2 <= Len(v.s)
                /\ LowerTok(v.s[i]) \in {"para ter menos de ", "para ter mais de "}
                /\ IsNumber(v.s[i + 1])
         THEN Ok([found |-> TRUE, group1 |-> "2.5"])
         ELSE Ok(NoMatch)

PatternSearch(v) ==
    IF v.t # "str" THEN Raise("TypeError")
    ELSE IF \E i \in 1..Len(v.s) : MatchAt(v.s, i)
         THEN LET i == CHOOSE k \in 1..Len(v.s) :
                           MatchAt(v.s, k) /\ \A j \in 1..(k - 1) : ~MatchAt(v.s, j)
              IN Ok([found |-> TRUE, group1 |-> v.s[i + 1]])
         ELSE Ok(NoMatch)

----------------------------------------------------------------------------
(* HTTP responses of the betting API *)

Garbage(kind) == [t |-> "garbage", kind |-> kind]

Http(status, text, enc, pre, payload) ==
    [kind |-> "http", status |-> status, text |-> text, enc |-> enc, pre |-> pre,
     payload |-> payload]
TransportError == [kind |-> "exc"]
NoResp == [kind |-> "none"]

(* json.loads of a body: the body's leading marks, then its payload *)
JsonLoads(pre, payload) ==
    IF pre = <<>> /\ payload.t # "garbage" THEN Ok(payload) ELSE Raise("JSONDecodeError")

StripPrefix(pre, mark) == IF pre # <<>> /\ Head(pre) = mark THEN Tail(pre) ELSE pre

(* response.json(): requests decodes with utf-8-sig when the response declares no
   charset and the body starts with a BOM, else it decodes response.text as is *)
ResponseJson(r) ==
    IF ~r.enc /\ r.pre # <<>> /\ Head(r.pre) = "BOM"
    THEN JsonLoads(Tail(r.pre), r.payload)
    ELSE JsonLoads(r.pre, r.payload)

(* the fallback: decode utf-8-sig, strip ")]}',\n", strip U+FEFF, json.loads *)
FallbackDecode(r) ==
    LET raw0 == StripPrefix(r.pre, "BOM")
        raw1 == StripPrefix(raw0, "PFX")
        raw2 == StripPrefix(raw1, "BOM")
    IN JsonLoads(raw2, r.payload)

DefaultData ==
    JObj("data" :> JObj("countries" :>
        JArr(<<JObj("tournaments" :> JArr(<<JObj("events" :> EmptyArr)>>))>>)))

(* as ParseJson, without the second attempt on the stripped body *)
ParseJson_NoFallback(r) ==
    LET d1 == ResponseJson(r)
    IN IF d1.ok THEN [data |-> d1.v, warned |-> FALSE]
       ELSE [data |-> DefaultData, warned |-> TRUE]

(* the "Parse JSON response" block: the decoded value and whether the warning is logged *)
ParseJson(r) ==
    LET d1 == ResponseJson(r)
        d2 == FallbackDecode(r)
    IN IF d1.ok THEN [data |-> d1.v, warned |-> FALSE]
       ELSE IF d2.ok THEN [data |-> d2.v, warned |-> FALSE]
       ELSE [data |-> DefaultData, warned |-> TRUE]

(* the next link of a chained expression: applied to the value so far, or the
   exception already raised *)
ThenGet(r, k, default) == IF r.ok THEN DictGet(r.v, k, default) ELSE r
ThenSubscript0(r) == IF r.ok THEN Subscript0(r.v) ELSE r

(* data.get("data", {}).get("countries", [])[0].get("tournaments", [])[0].get("events", []) *)
ExtractEvents(data) ==
    ThenGet(ThenSubscript0(ThenGet(ThenSubscript0(ThenGet(
        DictGet(data, "data", EmptyObj),
        "countries", EmptyArr)), "tournaments", EmptyArr)), "events", EmptyArr)

(* as ErrorMsg, without the branch for 403 *)
ErrorMsg_Generic(r) == Msg("API falhou com status", r.status)

(* the error message of a non-200 response *)
ErrorMsg(r) ==
    IF r.status = 403
    THEN IF Contains(Lower(r.text), "brazil") \/ Contains(Lower(r.text), "blocked")
         THEN Msg("Bloqueio geografico ativo", 0)
         ELSE Msg("Acesso negado (403) - possivel bloqueio geografico", 0)
    ELSE Msg("API falhou com status", r.status)

----------------------------------------------------------------------------
(* The persisted file notified_events.json *)

FileMissing == [kind |-> "missing"]
FileCorrupt == [kind |-> "corrupt"]
FileEmpty == [kind |-> "empty"]             \* just opened with mode "w"
FileJson(v) == [kind |-> "json", v |-> v]

(* as ElemSet, but the first element of the array is lost *)
ElemSet_DropFirst(a) == {a[i] : i \in 2..Len(a)}

ElemSet(a) == {a[i] : i \in 1..Len(a)}

(* load_notified_events: the set loaded and the entry logged *)
LoadNotifiedEvents(f) ==
    CASE f.kind = "missing" ->
            [set |-> {}, entry |-> Entry("INFO", Msg("No previous events file found, starting fresh", 0))]
      [] f.kind \in {"corrupt", "empty"} ->
            [set |-> {}, entry |-> Entry("ERROR", MsgExc("Error loading notified events", "JSONDecodeError"))]
      [] f.kind = "json" /\ f.v.t = "arr" ->
            [set |-> ElemSet(f.v.a),
             entry |-> Entry("INFO", Msg("Loaded previously notified events", Cardinality(ElemSet(f.v.a))))]
      [] OTHER ->
            [set |-> {}, entry |-> Entry("ERROR", MsgExc("Error loading notified events", "TypeError"))]

(* json.dump(list(self.notified_events), f) *)
DumpNotifiedEvents(S) == FileJson(JArr(SetToSeq(S)))

(* leaving the "with" block: the buffered text is written at the start of the file as it
   is now. Another writer may have filled the file since this one opened it: a longer
   text is then overwritten only in part *)
Flush(f, dumped) ==
    IF f.kind = "json" /\ f.v.t = "arr" /\ Len(f.v.a) > Len(dumped.v.a)
    THEN FileCorrupt
    ELSE dumped

(* save_notified_events under an outcome of the file system: the file left behind and
   the entries logged *)
SaveNotifiedEvents(S, f, outcome) ==
    CASE outcome = "ok" -> [file |-> Flush(FileEmpty, DumpNotifiedEvents(S)), entries |-> <<>>]
      [] outcome = "open_fails" ->
            [file |-> f,
             entries |-> <<Entry("ERROR", MsgExc("Error saving notified events", "OSError"))>>]
      [] OTHER ->
            [file |-> FileCorrupt,
             entries |-> <<Entry("ERROR", MsgExc("Error saving notified events", "OSError"))>>]

SaveOutcomes == {"ok", "open_fails", "write_fails"}

----------------------------------------------------------------------------
(* Events and response bodies drawn by the environment *)

Obj1(k, v) == JObj(k :> v)
Obj2(k1, v1, k2, v2) == JObj((k1 :> v1) @@ (k2 :> v2))

NameUnder == <<"Team A ", "para ter menos de ", "2.5", " gols na partida">>
NameUnderUpper == <<"Team B ", "PARA TER MENOS DE ", "3", " GOLS NA PARTIDA">>
NameOver == <<"Team A ", "para ter mais de ", "2.5", " gols na partida">>
NamePlain == <<"Team C">>

EvUnder(id) == Obj2("id", JNum(id), "homeTeamName", JStr(NameUnder))
EvUnderUpper(id) == Obj2("id", JNum(id), "homeTeamName", JStr(NameUnderUpper))
EvOver(id) == Obj2("id", JNum(id), "homeTeamName", JStr(NameOver))
EvEmptyName(id) == Obj2("id", JNum(id), "homeTeamName", JStr(<<>>))
EvNullName(id) == Obj2("id", JNum(id), "homeTeamName", JNull)
EvNoName(id) == Obj1("id", JNum(id))
EvUnderNoId == Obj1("homeTeamName", JStr(NameUnder))
EvPlainNoId == Obj1("homeTeamName", JStr(NamePlain))
EvNotObject == JNum(7)

Obj3(k1, v1, k2, v2, k3, v3) == JObj((k1 :> v1) @@ (k2 :> v2) @@ (k3 :> v3))

EvBadDate(id) ==
    Obj3("id", JNum(id), "homeTeamName", JStr(NameUnder), "date", JStr(<<"tomorrow">>))
EvDated(id) ==
    JObj(("id" :> JNum(id)) @@ ("homeTeamName" :> JStr(NameUnderUpper))
         @@ ("date" :> JStr(<<"2025-01-01T12:00:00Z">>))
         @@ ("markets" :> JArr(<<JObj("options" :> JArr(<<JObj("odd" :> JNum(2))>>))>>)))

TopOf(dataVal) == Obj1("data", dataVal)
DataOf(countriesVal) == TopOf(Obj1("countries", countriesVal))
CountryOf(tournamentsVal) == DataOf(JArr(<<Obj1("tournaments", tournamentsVal)>>))
TournamentOf(x) == CountryOf(JArr(<<x>>))
WellFormed(evs) == TournamentOf(Obj1("events", JArr(evs)))

(* decoded values that are not the expected structure *)
OddShapes ==
    { JNum(0), JNull, EmptyArr, JArr(<<EmptyObj>>), EmptyObj,
      TopOf(JNull), TopOf(EmptyArr), TopOf(EmptyObj),
      DataOf(JNull), DataOf(EmptyArr), DataOf(JArr(<<JNull>>)), DataOf(JArr(<<EmptyObj>>)),
      CountryOf(JNull), CountryOf(EmptyArr), TournamentOf(JNull), TournamentOf(EmptyObj),
      TournamentOf(Obj1("events", JNull)), TournamentOf(Obj1("events", JNum(3))),
      WellFormed(<<>>) }

RichEvents ==
    { EvUnder(1), EvUnderUpper(2), EvOver(1), EvEmptyName(1), EvNullName(1), EvNoName(2),
      EvUnderNoId, EvPlainNoId, EvNotObject, EvBadDate(2), EvDated(2) }

SeqsUpTo2(S) == {<<>>} \cup {<<x>> : x \in S} \cup {<<x, y>> : x \in S, y \in S}

Prefixes == { <<>>, <<"BOM">>, <<"PFX">>, <<"BOM", "PFX">>, <<"PFX", "BOM">>,
              <<"BOM", "BOM", "PFX">> }

TextBrazil == <<"Access restricted to ", "Brazil">>
TextBlocked == <<"Blocked">>
TextOther == <<"Forbidden">>
NoText == <<>>

ErrorResponses ==
    { Http(403, txt, TRUE, <<>>, Garbage("html")) : txt \in {TextBrazil, TextBlocked, TextOther} }
    \cup { Http(500, TextOther, TRUE, <<>>, Garbage("html")),
           Http(404, TextBrazil, TRUE, <<>>, Garbage("html")) }

(* every kind of answer the API can give *)
RichResponses ==
    {TransportError}
    \cup ErrorResponses
    \cup { Http(200, NoText, enc, pre, p) :
             enc \in BOOLEAN, pre \in Prefixes,
             p \in {Garbage("html"), Garbage("truncated"), WellFormed(<<EvUnder(1)>>)} }
    \cup { Http(200, NoText, TRUE, <<>>, p) : p \in OddShapes }
    \cup { Http(200, NoText, TRUE, <<>>, WellFormed(evs)) : evs \in SeqsUpTo2(RichEvents) }

(* the answers drawn when the control surface races with the loops *)
PlainResponses ==
    { Http(500, TextOther, TRUE, <<>>, Garbage("html")) }
    \cup { Http(200, NoText, TRUE, <<>>, WellFormed(evs)) :
             evs \in { <<EvUnder(1)>> } }

(* the answer in which the API lists one matching event, over and over *)
MatchResponses == { Http(200, NoText, TRUE, <<>>, WellFormed(<<EvUnder(1)>>)) }

TelegramOutcomes == {"ok", "status", "exc"}

(* an environment: the answers of the API, of the Telegram endpoint and of the file
   system that the loop can meet *)
RichEnv == [responses |-> RichResponses, telegram |-> TelegramOutcomes, saves |-> SaveOutcomes]
PlainEnv == [responses |-> MatchResponses, telegram |-> {"ok"}, saves |-> {"ok"}]
BasicEnv == [responses |-> PlainResponses \cup {TransportError},
             telegram |-> {"ok", "status"}, saves |-> {"ok", "write_fails"}]

----------------------------------------------------------------------------
(* find_odd_value *)

(* "if odd_value": the truth value Python gives a decoded JSON value *)
Truthy_Present(v) == v.t # "null"

Truthy(v) ==
    CASE v.t = "null" -> FALSE
      [] v.t = "num" -> v.n # 0
      [] v.t = "str" -> v.s # <<>>
      [] v.t = "arr" -> v.a # <<>>
      [] OTHER -> DOMAIN v.f # {}

NotAvailable == JStr(<<"N/D">>)

ThenIterate(r) == IF r.ok THEN Iterate(r.v) ELSE r

NoneFound == [kind |-> "none"]
Raised == [kind |-> "raise"]
Found(v) == [kind |-> "found", v |-> v]

(* option.get("odd") and its test *)
ScanOption(got, rest) ==
    IF ~got.ok THEN Raised ELSE IF Truthy(got.v) THEN Found(got.v) ELSE rest

(* "for option in ...": the options from the j-th on *)
RECURSIVE ScanOptions(_, _)
ScanOptions(opts, j) ==
    IF j > Len(opts) THEN NoneFound
    ELSE ScanOption(DictGet(opts[j], "odd", JNull), ScanOptions(opts, j + 1))

ScanIterated(it) == IF it.ok THEN ScanOptions(it.v, 1) ELSE Raised

OrElse(r, rest) == IF r.kind = "none" THEN rest ELSE r

(* "for market in ...": the markets from the i-th on *)
RECURSIVE ScanMarkets(_, _)
ScanMarkets(ms, i) ==
    IF i > Len(ms) THEN NoneFound
    ELSE OrElse(ScanIterated(ThenIterate(DictGet(ms[i], "options", EmptyArr))),
                ScanMarkets(ms, i + 1))

ScanEvent(it) == IF it.ok THEN ScanMarkets(it.v, 1) ELSE Raised

OddOf(r) == IF r.kind = "found" THEN r.v ELSE NotAvailable

(* BettingMonitor.find_odd_value *)
FindOddValue(event) == OddOf(ScanEvent(ThenIterate(DictGet(event, "markets", EmptyArr))))

(* the date of an event in the message: datetime.fromisoformat(...).astimezone()
   formatted, or what event.get("date", "N/D") gives when that raises *)
IsIsoDate(tok) == tok \in {"2025-01-01T12:00:00Z", "2025-06-30T18:30:00+00:00"}

FormatLocal(tok) ==
    CASE tok = "2025-01-01T12:00:00Z" -> "01/01/2025 12:00:00"
      [] tok = "2025-06-30T18:30:00+00:00" -> "30/06/2025 18:30:00"
      [] OTHER -> tok

DateStr(event) ==
    IF "date" \notin DOMAIN event.f THEN NotAvailable
    ELSE IF /\ event.f["date"].t = "str"
            /\ Len(event.f["date"].s) = 1
            /\ IsIsoDate(event.f["date"].s[1])
         THEN JStr(<<FormatLocal(event.f["date"].s[1])>>)
         ELSE event.f["date"]

----------------------------------------------------------------------------
(* State after BettingMonitor() *)

NoCall == [op |-> "none"]

NoMessage == [id |-> JNull, gols |-> "", odd |-> JNull, date |-> JNull]

(* a loop thread: where it is (pc), monitor_loop's locals (resp, events, idx,
   new_events_found), process_event's pending message and last return value (ret), and
   what it did: how often its notified_events.add inserted an id that was not yet there
   and how often its send returned True in the current iteration (grew, sent), the events
   whether stop() found it sleeping (stopped_asleep), the text json.dump has buffered for
   the file it holds open (buffer), and how its last save ended (saved) *)
NewLoop == [pc |-> "unborn", resp |-> NoResp, events |-> <<>>, idx |-> 0,
            new_events_found |-> 0, message |-> NoMessage, ret |-> "none",
            grew |-> 0, sent |-> 0, stopped_asleep |-> FALSE,
            buffer |-> FileEmpty, saved |-> "none"]

InitFiles == { FileMissing, FileCorrupt, FileJson(EmptyArr), FileJson(JArr(<<JNum(2)>>)),
               FileJson(JNum(2)) }

InitWith(files) ==
    /\ file \in files
    /\ running = FALSE
    /\ thread = -1
    /\ notified_events = LoadNotifiedEvents(file).set
    /\ recent_logs = DequeAppend(<<>>, LoadNotifiedEvents(file).entry)
    /\ stats = InitStats
    /\ loops = [t \in Threads |-> NewLoop]
    /\ calls = [c \in Calls |-> IF c = 0 THEN "boot" ELSE "new"]
    /\ posts = [i \in EventIds |-> 0]
    /\ delivered = [i \in EventIds |-> 0]
    /\ direct = NoCall

----------------------------------------------------------------------------
(* monitor_loop *)

Pc(t) == loops[t].pc

(* the thread starts: the two statements before the while *)
LoopInit(t) ==
    /\ Pc(t) = "init"
    /\ recent_logs' = Log(recent_logs, "INFO", Msg("Starting betting monitor loop", 0))
    /\ stats' = [stats EXCEPT !.start_time = TRUE]
    /\ loops' = [loops EXCEPT ![t].pc = "check"]
    /\ UNCHANGED <<running, thread, notified_events, file, calls, posts, delivered, direct>>

(* "while self.running": leave the loop, or count the request and issue it *)
LoopCheck(t) ==
    /\ Pc(t) = "check"
    /\ running => stats.total_requests < MaxRequests
    /\ IF running
       THEN /\ stats' = [stats EXCEPT !.total_requests = @ + 1, !.last_check = TRUE]
            /\ recent_logs' = Log(recent_logs, "INFO", Msg("Tentando requisicao direta...", 0))
            /\ loops' = [loops EXCEPT ![t].pc = "request"]
       ELSE /\ loops' = [loops EXCEPT ![t].pc = "done"]
            /\ UNCHANGED <<stats, recent_logs>>
    /\ UNCHANGED <<running, thread, notified_events, file, calls, posts, delivered, direct>>

(* what the iteration does with the answer r, up to the for loop over the events:
   the entries logged, last_error, whether the request counts as successful, and the
   events to process *)
HandleResponse(r) ==
    LET loopError(exc) ==
            [entries |-> <<Entry("ERROR", MsgExc("Error in monitoring loop", exc))>>,
             error |-> MsgExc("Error in monitoring loop", exc), ok |-> FALSE]
        parsed == ParseJson(r)
        warn1 == IF parsed.warned
                 THEN <<Entry("WARNING", Msg("Response is not valid JSON", 0))>> ELSE <<>>
        ex == ExtractEvents(parsed.data)
        warn2 == IF ~ex.ok
                 THEN <<Entry("WARNING", Msg("No events found in API response", 0))>> ELSE <<>>
        evs == IF ex.ok THEN Iterate(ex.v) ELSE Ok(<<>>)
        good == <<Entry("INFO", Msg("Sucesso com requisicao direta!", 0))>>
    IN  IF r.kind = "exc"
        THEN [outcome |-> "exception", success |-> FALSE, events |-> <<>>,
              entries |-> loopError("RequestException").entries,
              error |-> loopError("RequestException").error]
        ELSE IF r.status # 200
        THEN [outcome |-> "status", success |-> FALSE, events |-> <<>>,
              entries |-> <<Entry("WARNING", Msg("Requisicao direta retornou status", r.status)),
                            Entry("ERROR", ErrorMsg(r))>>,
              error |-> ErrorMsg(r)]
        ELSE IF ~ex.ok /\ ex.exc \notin {"IndexError", "KeyError"}
        THEN [outcome |-> "error", success |-> TRUE, events |-> <<>>,
              entries |-> good \o warn1 \o loopError(ex.exc).entries,
              error |-> loopError(ex.exc).error]
        ELSE IF ~evs.ok
        THEN [outcome |-> "error", success |-> TRUE, events |-> <<>>,
              entries |-> good \o warn1 \o loopError(evs.exc).entries,
              error |-> loopError(evs.exc).error]
        ELSE [outcome |-> "events", success |-> TRUE, events |-> evs.v,
              entries |-> good \o warn1 \o warn2, error |-> NoError]

(* as NextPc, but an exception ends the thread: no handler around the iteration *)
NextPc_Escapes(h) ==
    IF h.outcome \in {"exception", "error"} THEN "done"
    ELSE IF h.outcome # "events" THEN "sleep"
    ELSE IF h.events = <<>> THEN "endcycle"
    ELSE "event"

(* where the iteration goes on: the except handlers and the non-200 branch sleep and
   take the next turn of the while, the for loop starts when there are events *)
NextPc(h) ==
    IF h.outcome # "events" THEN "sleep"
    ELSE IF h.events = <<>> THEN "endcycle"
    ELSE "event"

(* the request returns (or raises): the iteration up to its first event *)
LoopResponse(t, E) ==
    /\ Pc(t) = "request"
    /\ \E r \in E.responses :
        LET h == HandleResponse(r) IN
        /\ recent_logs' = LogAll(recent_logs, h.entries)
        /\ stats' = [stats EXCEPT
                        !.successful_requests = IF h.success THEN @ + 1 ELSE @,
                        !.last_error = IF h.outcome = "events" THEN @ ELSE h.error]
        /\ loops' = [loops EXCEPT ![t] =
                        [@ EXCEPT !.resp = r, !.events = h.events, !.idx = 1,
                                  !.new_events_found = 0,
                                  !.pc = NextPc(h)]]
    /\ UNCHANGED <<running, thread, notified_events, file, calls, posts, delivered, direct>>

(* as CheckEvent, without the test "event['id'] not in self.notified_events" *)
CheckEvent_NoDedup(e, notified) ==
    LET home == DictGet(e, "homeTeamName", JStr(<<>>))
        m == IF home.ok THEN PatternSearch(home.v) ELSE home
        id == DictIndex(e, "id")
        none(act, exc) == [act |-> act, exc |-> exc, message |-> NoMessage]
    IN  IF ~m.ok THEN none("error", m.exc)
        ELSE IF ~m.v.found THEN none("skip", "")
        ELSE IF ~id.ok THEN none("error", id.exc)
        ELSE [act |-> "send", exc |-> "",
              message |-> [id |-> id.v, gols |-> m.v.group1, odd |-> FindOddValue(e),
                           date |-> DateStr(e)]]

(* process_event up to the notification: skip, fail, or the message to send *)
CheckEvent(e, notified) ==
    LET home == DictGet(e, "homeTeamName", JStr(<<>>))
        m == IF home.ok THEN PatternSearch(home.v) ELSE home
        id == DictIndex(e, "id")
        none(act, exc) == [act |-> act, exc |-> exc, message |-> NoMessage]
    IN  IF ~m.ok THEN none("error", m.exc)
        ELSE IF ~m.v.found THEN none("skip", "")
        ELSE IF ~id.ok THEN none("error", id.exc)
        ELSE IF id.v.t \in {"arr", "obj"} THEN none("error", "TypeError")
        ELSE IF id.v \in notified THEN none("skip", "")
        ELSE [act |-> "send", exc |-> "",
              message |-> [id |-> id.v, gols |-> m.v.group1, odd |-> FindOddValue(e),
                           date |-> DateStr(e)]]

(* as Advance, but an event that returned False ends the for loop *)
Advance_Abort(l, ret) ==
    [l EXCEPT !.ret = ret,
              !.new_events_found = IF ret = "True" THEN @ + 1 ELSE @,
              !.idx = @ + 1,
              !.message = NoMessage,
              !.pc = IF l.idx + 1 > Len(l.events) \/ ret = "False" THEN "endcycle"
                     ELSE "event"]

(* the for loop moves to the next event, or past the last one *)
Advance(l, ret) ==
    [l EXCEPT !.ret = ret,
              !.new_events_found = IF ret = "True" THEN @ + 1 ELSE @,
              !.idx = @ + 1,
              !.message = NoMessage,
              !.pc = IF l.idx + 1 > Len(l.events) THEN "endcycle" ELSE "event"]

(* process_event(event) until it returns or calls send_telegram_message *)
ProcessEvent(t) ==
    /\ Pc(t) = "event"
    /\ LET c == CheckEvent(loops[t].events[loops[t].idx], notified_events) IN
        /\ recent_logs' = IF c.act = "error"
                          THEN Log(recent_logs, "ERROR", MsgExc("Error processing event", c.exc))
                          ELSE recent_logs
        /\ loops' = [loops EXCEPT ![t] =
                        IF c.act = "send"
                        THEN [@ EXCEPT !.pc = "sending", !.message = c.message]
                        ELSE Advance(@, "False")]
    /\ UNCHANGED <<running, thread, notified_events, stats, file, calls, posts, delivered, direct>>

(* as SendResult, but any HTTP answer counts as sent *)
SendResult_AnyStatus(outcome) ==
    CASE outcome \in {"ok", "status"} ->
            [sent |-> TRUE, entry |-> Entry("INFO", Msg("Telegram notification sent successfully", 0))]
      [] OTHER ->
            [sent |-> FALSE,
             entry |-> Entry("ERROR", MsgExc("Error sending Telegram message", "RequestException"))]

(* send_telegram_message under an answer of the endpoint: the value returned and the
   entry logged *)
SendResult(outcome) ==
    CASE outcome = "ok" ->
            [sent |-> TRUE, entry |-> Entry("INFO", Msg("Telegram notification sent successfully", 0))]
      [] outcome = "status" ->
            [sent |-> FALSE, entry |-> Entry("ERROR", Msg("Failed to send Telegram message", 400))]
      [] OTHER ->
            [sent |-> FALSE,
             entry |-> Entry("ERROR", MsgExc("Error sending Telegram message", "RequestException"))]

SaveError == Entry("ERROR", MsgExc("Error saving notified events", "OSError"))

(* the POST returns: send_telegram_message returns, and on True the id is added, the file
   is opened for writing (which empties it) and the list of ids is dumped into the
   buffer of the open file; when the send returned False or the file cannot be opened,
   process_event logs and returns *)
SendTelegram(t, E) ==
    /\ Pc(t) = "sending"
    /\ \E o \in E.telegram, sv \in E.saves :
        LET id == loops[t].message.id
            res == SendResult(o)
            added == notified_events \cup {id}
        IN
        /\ ~res.sent => sv = "ok"
        /\ sv # "write_fails"
        /\ posts' = [posts EXCEPT ![id.n] = @ + 1]
        /\ delivered' = [delivered EXCEPT ![id.n] = IF o = "ok" THEN @ + 1 ELSE @]
        /\ stats' = [stats EXCEPT !.notifications_sent = IF res.sent THEN @ + 1 ELSE @]
        /\ notified_events' = IF res.sent THEN added ELSE notified_events
        /\ file' = IF res.sent /\ sv = "ok" THEN FileEmpty ELSE file
        /\ recent_logs' =
              IF ~res.sent
              THEN LogAll(recent_logs,
                          <<res.entry,
                            Entry("ERROR", Msg("Failed to send notification for event", id.n))>>)
              ELSE IF sv = "ok" THEN LogAll(recent_logs, <<res.entry>>)
              ELSE LogAll(recent_logs,
                          <<res.entry, SaveError,
                            Entry("INFO", Msg("New event notification sent", id.n))>>)
        /\ loops' = [loops EXCEPT ![t] =
                        IF ~res.sent THEN Advance(@, "False")
                        ELSE IF sv = "ok"
                        THEN [@ EXCEPT !.pc = "saving",
                                       !.buffer = DumpNotifiedEvents(added),
                                       !.sent = @ + 1,
                                       !.grew = IF id \notin notified_events THEN @ + 1 ELSE @]
                        ELSE Advance([@ EXCEPT !.sent = @ + 1,
                                               !.saved = "failed",
                                               !.grew = IF id \notin notified_events
                                                        THEN @ + 1 ELSE @],
                                     "True")]
    /\ UNCHANGED <<running, thread, calls, direct>>

(* the "with" block of save_notified_events is left: the buffer reaches the file, or the
   write fails and is logged; then process_event logs the notification and returns True *)
CloseFile(t, E) ==
    /\ Pc(t) = "saving"
    /\ \E sv \in E.saves \ {"open_fails"} :
        /\ file' = IF sv = "ok" THEN Flush(file, loops[t].buffer) ELSE FileCorrupt
        /\ recent_logs' =
              LogAll(recent_logs,
                     (IF sv = "ok" THEN <<>> ELSE <<SaveError>>)
                     \o <<Entry("INFO", Msg("New event notification sent",
                                            loops[t].message.id.n))>>)
        /\ loops' = [loops EXCEPT ![t] =
                        Advance([@ EXCEPT !.buffer = FileEmpty,
                                          !.saved = IF sv = "ok" THEN "ok" ELSE "failed"],
                                "True")]
    /\ UNCHANGED <<running, thread, notified_events, stats, calls, posts, delivered, direct>>

(* after the for loop: account the new matches, then sleep *)
EndCycle(t) ==
    /\ Pc(t) = "endcycle"
    /\ LET n == loops[t].new_events_found IN
        /\ recent_logs' = IF n > 0
                          THEN Log(recent_logs, "INFO", Msg("Found new matching events", n))
                          ELSE recent_logs
        /\ stats' = [stats EXCEPT !.events_found = IF n > 0 THEN @ + n ELSE @]
    /\ loops' = [loops EXCEPT ![t].pc = "sleep"]
    /\ UNCHANGED <<running, thread, notified_events, file, calls, posts, delivered, direct>>

(* time.sleep(self.INTERVAL) returns *)
LoopWake(t) ==
    /\ Pc(t) = "sleep"
    /\ loops' = [loops EXCEPT ![t] =
                    [NewLoop EXCEPT !.pc = "check", !.stopped_asleep = loops[t].stopped_asleep,
                                    !.saved = loops[t].saved]]
    /\ UNCHANGED <<running, thread, notified_events, recent_logs, stats, file, calls,
                   posts, delivered, direct>>

----------------------------------------------------------------------------
(* The control surface: start_background_monitoring, /api/start, /api/stop *)

(* start_background_monitoring: if not monitor.is_running(): monitor.start() *)
StartBackgroundMonitoring ==
    /\ calls[0] = "boot"
    /\ calls' = [calls EXCEPT ![0] = IF running THEN "done" ELSE "start"]
    /\ UNCHANGED <<running, thread, notified_events, recent_logs, stats, file, loops,
                   posts, delivered, direct>>

(* api_start: if not monitor.is_running(): monitor.start() *)
ApiStart(c) ==
    /\ c > 0
    /\ calls[c] = "new"
    /\ c > 1 => calls[c - 1] # "new"
    /\ calls' = [calls EXCEPT ![c] = IF running THEN "done" ELSE "start"]
    /\ UNCHANGED <<running, thread, notified_events, recent_logs, stats, file, loops,
                   posts, delivered, direct>>

(* api_stop: if monitor.is_running(): monitor.stop() *)
ApiStop(c) ==
    /\ c > 0
    /\ calls[c] = "new"
    /\ c > 1 => calls[c - 1] # "new"
    /\ calls' = [calls EXCEPT ![c] = IF running THEN "stop" ELSE "done"]
    /\ UNCHANGED <<running, thread, notified_events, recent_logs, stats, file, loops,
                   posts, delivered, direct>>

(* start(): "if not self.running" *)
StartCheck(c) ==
    /\ calls[c] = "start"
    /\ calls' = [calls EXCEPT ![c] = IF running THEN "done" ELSE "start_set"]
    /\ UNCHANGED <<running, thread, notified_events, recent_logs, stats, file, loops,
                   posts, delivered, direct>>

(* start(): self.running = True *)
StartSet(c) ==
    /\ calls[c] = "start_set"
    /\ running' = TRUE
    /\ calls' = [calls EXCEPT ![c] = "start_thread"]
    /\ UNCHANGED <<thread, notified_events, recent_logs, stats, file, loops, posts, delivered, direct>>

(* start(): create and start the thread, log *)
StartThread(c) ==
    /\ calls[c] = "start_thread"
    /\ thread' = c
    /\ loops' = [loops EXCEPT ![c].pc = "init"]
    /\ recent_logs' = Log(recent_logs, "INFO", Msg("Betting monitor started", 0))
    /\ calls' = [calls EXCEPT ![c] = "done"]
    /\ UNCHANGED <<running, notified_events, stats, file, posts, delivered, direct>>

(* stop(): "if self.running" *)
StopCheck(c) ==
    /\ calls[c] = "stop"
    /\ calls' = [calls EXCEPT ![c] = IF running THEN "stop_set" ELSE "done"]
    /\ UNCHANGED <<running, thread, notified_events, recent_logs, stats, file, loops,
                   posts, delivered, direct>>

(* stop(): self.running = False, log *)
StopSet(c) ==
    /\ calls[c] = "stop_set"
    /\ running' = FALSE
    /\ recent_logs' = Log(recent_logs, "INFO", Msg("Betting monitor stopped", 0))
    /\ calls' = [calls EXCEPT ![c] = "done"]
    /\ loops' = [t \in Threads |->
                    IF loops[t].pc = "sleep" THEN [loops[t] EXCEPT !.stopped_asleep = TRUE]
                    ELSE loops[t]]
    /\ UNCHANGED <<thread, notified_events, stats, file, posts, delivered, direct>>

----------------------------------------------------------------------------
(* The whole program: the control surface racing with the loops it spawned *)

LoopStep(t, E) ==
    \/ LoopInit(t)
    \/ LoopCheck(t)
    \/ LoopResponse(t, E)
    \/ ProcessEvent(t)
    \/ SendTelegram(t, E)
    \/ CloseFile(t, E)
    \/ EndCycle(t)
    \/ LoopWake(t)

StartStep(c) == StartCheck(c) \/ StartSet(c) \/ StartThread(c)
StopStep(c) == StopCheck(c) \/ StopSet(c)

Next ==
    \/ StartBackgroundMonitoring
    \/ \E c \in Calls : ApiStart(c) \/ ApiStop(c) \/ StartStep(c) \/ StopStep(c)
    \/ \E t \in Threads : LoopStep(t, PlainEnv)

Init == InitWith({FileMissing})

Spec == Init /\ [][Next]_vars

(* One run of the monitor: started by the bootstrap thread, stopped through /api/stop.
   The last iteration explored meets every kind of answer; the iterations before it meet
   the basic ones. *)
RunEnv == IF stats.total_requests < MaxRequests THEN BasicEnv ELSE RichEnv

NextRun ==
    \/ StartBackgroundMonitoring
    \/ StartStep(0)
    \/ ApiStop(1)
    \/ StopStep(1)
    \/ LoopStep(0, RunEnv)

InitRun == InitWith(InitFiles)

SpecRun == InitRun /\ [][NextRun]_vars

----------------------------------------------------------------------------
(* The log buffer on its own: log() called again and again on a fresh monitor, and
   get_recent_logs read in between *)

(* the level of the k-th call: the three levels in turn *)
LevelOf(k) == CASE k % 3 = 1 -> "INFO" [] k % 3 = 2 -> "WARNING" [] OTHER -> "ERROR"

(* the message of the k-th call *)
NumberedEntry(k) == Entry(LevelOf(k), Msg("entry", k))

(* the log() calls made so far *)
Appends == IF direct.op = "none" THEN 0 ELSE direct.n

(* self.log(message, level) *)
LogCall ==
    /\ direct.op \in {"none", "log", "get_recent_logs"}
    /\ Appends < MaxAppends
    /\ recent_logs' = Log(recent_logs, LevelOf(Appends + 1), Msg("entry", Appends + 1))
    /\ direct' = [op |-> "log", n |-> Appends + 1, result |-> <<>>]
    /\ UNCHANGED <<running, thread, notified_events, stats, file, loops, calls, posts,
                   delivered>>

(* GET /api/logs: monitor.get_recent_logs() *)
GetRecentLogsCall ==
    /\ direct.op = "log"
    /\ direct' = [op |-> "get_recent_logs", n |-> Appends,
                  result |-> GetRecentLogs(recent_logs)]
    /\ UNCHANGED <<running, thread, notified_events, recent_logs, stats, file, loops, calls,
                   posts, delivered>>

NextLog == LogCall \/ GetRecentLogsCall

InitLog == InitWith(InitFiles)

SpecLog == InitLog /\ [][NextLog]_vars

----------------------------------------------------------------------------
(* The persisted file on its own: save_notified_events and load_notified_events called
   on a monitor holding any set of ids, over any file left by an earlier run *)

(* values an event id can take and a set can hold *)
IdValues == { JNum(1), JNum(2), JStr(<<"1">>), JStr(<<"a">>), JNull }

DirectCalls == IF direct.op = "none" THEN 0 ELSE direct.n

InitFile ==
    /\ file \in InitFiles
    /\ notified_events \in SUBSET IdValues
    /\ running = FALSE
    /\ thread = -1
    /\ recent_logs = DequeAppend(<<>>, LoadNotifiedEvents(file).entry)
    /\ stats = InitStats
    /\ loops = [t \in Threads |-> NewLoop]
    /\ calls = [c \in Calls |-> IF c = 0 THEN "boot" ELSE "new"]
    /\ posts = [i \in EventIds |-> 0]
    /\ delivered = [i \in EventIds |-> 0]
    /\ direct = NoCall

(* self.save_notified_events() *)
SaveCall ==
    /\ DirectCalls < MaxDirectCalls
    /\ \E sv \in SaveOutcomes :
        LET saved == SaveNotifiedEvents(notified_events, file, sv) IN
        /\ file' = saved.file
        /\ recent_logs' = LogAll(recent_logs, saved.entries)
        /\ direct' = [op |-> "save_notified_events", n |-> DirectCalls + 1,
                      set |-> notified_events, outcome |-> sv]
    /\ UNCHANGED <<running, thread, notified_events, stats, loops, calls, posts, delivered>>

(* self.load_notified_events() *)
LoadCall ==
    /\ DirectCalls < MaxDirectCalls
    /\ notified_events' = LoadNotifiedEvents(file).set
    /\ recent_logs' = DequeAppend(recent_logs, LoadNotifiedEvents(file).entry)
    /\ direct' = [op |-> "load_notified_events", n |-> DirectCalls + 1,
                  set |-> LoadNotifiedEvents(file).set, outcome |-> "returned"]
    /\ UNCHANGED <<running, thread, stats, file, loops, calls, posts, delivered>>

NextFile == SaveCall \/ LoadCall

SpecFile == InitFile /\ [][NextFile]_vars

----------------------------------------------------------------------------
(* find_odd_value called on its own *)

(* the events find_odd_value is called with *)
OddOptions ==
    { JNull, EmptyObj, Obj1("odd", JNull), Obj1("odd", JStr(<<>>)), Obj1("odd", JNum(0)),
      Obj1("odd", JStr(<<"1.85">>)), Obj1("odd", JNum(2)) }

OddMarkets ==
    { JNull, EmptyObj, Obj1("options", JNull) }
    \cup { Obj1("options", JArr(os)) : os \in SeqsUpTo2(OddOptions) }

OddEvents ==
    { JNull, EmptyObj, Obj1("markets", JNull), Obj1("markets", EmptyObj) }
    \cup { Obj1("markets", JArr(ms)) : ms \in SeqsUpTo2(OddMarkets) }

(* self.find_odd_value(event) *)
FindOddValueCall ==
    /\ direct.op = "none"
    /\ \E e \in OddEvents :
        direct' = [op |-> "find_odd_value", n |-> 1, arg |-> e,
                   result |-> FindOddValue(e)]
    /\ UNCHANGED <<running, thread, notified_events, recent_logs, stats, file, loops, calls,
                   posts, delivered>>

NextOdd == FindOddValueCall

InitOdd == InitWith({FileMissing})

SpecOdd == InitOdd /\ [][NextOdd]_vars

----------------------------------------------------------------------------
(* test_api_connection, called by GET /api/test *)

(* a message that embeds another message *)
MsgOf(text, m) == [text |-> text, arg |-> m.arg, exc |-> m.text]

(* len(v) *)
PyLen(v) ==
    CASE v.t = "arr" -> Ok(Len(v.a))
      [] v.t = "str" -> Ok(Len(v.s))
      [] v.t = "obj" -> Ok(Cardinality(DOMAIN v.f))
      [] OTHER -> Raise("TypeError")

ThenExtract(d) == IF d.ok THEN ExtractEvents(d.v) ELSE d
ThenLen(x) == IF x.ok THEN PyLen(x.v) ELSE x

(* len(response.json().get("data", {})...get("events", [])) *)
EventsCount(r) == ThenLen(ThenExtract(ResponseJson(r)))

(* the result dictionary: the keys it has and their values *)
TestResult(keys, status, message, count, blocked) ==
    [keys |-> {"status_code", "success", "timestamp", "message"} \cup keys,
     status_code |-> status, success |-> (status = 200), message |-> message,
     events_found |-> count, blocked_region |-> blocked]

Counted(status, n) ==
    IF n.ok
    THEN TestResult({"events_found"}, status,
                    Msg("API acessivel e funcionando - eventos encontrados", n.v), n.v, FALSE)
    ELSE TestResult({}, status,
                    Msg("API acessivel e funcionando - Resposta valida mas estrutura inesperada", 0),
                    0, FALSE)

(* as Classify, with the keywords of the polling loop: "blocked" confirms the block too *)
Classify_AsLoop(r) ==
    IF r.status = 200 THEN Counted(200, EventsCount(r))
    ELSE IF r.status = 403
    THEN IF Contains(Lower(r.text), "brazil") \/ Contains(Lower(r.text), "blocked")
         THEN TestResult({"blocked_region"}, 403,
                         Msg("Bloqueio confirmado: Acesso restrito ao Brasil", 0), 0, TRUE)
         ELSE TestResult({}, 403,
                         Msg("Acesso negado - possivel bloqueio geografico (Brasil apenas)", 0),
                         0, FALSE)
    ELSE TestResult({}, r.status, Msg("Erro HTTP", r.status), 0, FALSE)

(* the result built from a response *)
Classify(r) ==
    IF r.status = 200 THEN Counted(200, EventsCount(r))
    ELSE IF r.status = 403
    THEN IF Contains(Lower(r.text), "brazil")
         THEN TestResult({"blocked_region"}, 403,
                         Msg("Bloqueio confirmado: Acesso restrito ao Brasil", 0), 0, TRUE)
         ELSE TestResult({}, 403,
                         Msg("Acesso negado - possivel bloqueio geografico (Brasil apenas)", 0),
                         0, FALSE)
    ELSE TestResult({}, r.status, Msg("Erro HTTP", r.status), 0, FALSE)

ErrorResult ==
    [keys |-> {"status_code", "success", "timestamp", "message"},
     status_code |-> 0, success |-> FALSE,
     message |-> MsgExc("Erro na conexao", "RequestException"),
     events_found |-> 0, blocked_region |-> FALSE]

(* the entries make_api_request logs *)
RequestEntries(r) ==
    <<Entry("INFO", Msg("Tentando requisicao direta...", 0))>>
    \o (IF r.kind = "exc" THEN <<>>
        ELSE IF r.status = 200
        THEN <<Entry("INFO", Msg("Sucesso com requisicao direta!", 0))>>
        ELSE <<Entry("WARNING", Msg("Requisicao direta retornou status", r.status))>>)

Tested(r, result) ==
    [result |-> result,
     entries |-> <<Entry("INFO", Msg("Testing API connection...", 0))>> \o RequestEntries(r)
                 \o <<Entry("INFO", MsgOf("API test result", result.message))>>]

(* BettingMonitor.test_api_connection under the answer r of the API: the dictionary
   returned and the entries logged *)
TestApiConnection(r) ==
    IF r.kind = "exc"
    THEN [result |-> ErrorResult,
          entries |-> <<Entry("INFO", Msg("Testing API connection...", 0))>> \o RequestEntries(r)
                      \o <<Entry("ERROR", MsgExc("API test failed", "RequestException"))>>]
    ELSE Tested(r, Classify(r))

(* the answers drawn for the test *)
TestResponses ==
    {TransportError}
    \cup ErrorResponses
    \cup { Http(403, txt, TRUE, <<>>, Garbage("html")) :
             txt \in { <<"BRAZIL">>, <<"only from ", "brazil", " for now">>, NoText } }
    \cup { Http(200, NoText, enc, pre, p) :
             enc \in BOOLEAN, pre \in {<<>>, <<"BOM">>, <<"PFX">>},
             p \in {Garbage("html"), WellFormed(<<EvUnder(1)>>)} }
    \cup { Http(200, NoText, TRUE, <<>>, p) : p \in OddShapes }
    \cup { Http(200, NoText, TRUE, <<>>, WellFormed(evs)) :
             evs \in SeqsUpTo2({EvUnder(1), EvNotObject}) }
    \cup { Http(200, NoText, TRUE, <<>>, TournamentOf(Obj1("events", x))) :
             x \in {JStr(<<"a", "b", "c">>), Obj1("k", JNull)} }

(* as ApiTest, but the request is counted like a request of the polling loop *)
ApiTest_Counting ==
    /\ DirectCalls < MaxDirectCalls
    /\ \E r \in TestResponses :
        /\ recent_logs' = LogAll(recent_logs, TestApiConnection(r).entries)
        /\ direct' = [op |-> "test_api_connection", n |-> DirectCalls + 1, arg |-> r,
                      result |-> TestApiConnection(r).result]
        /\ stats' = [stats EXCEPT !.total_requests = @ + 1, !.last_check = TRUE]
    /\ UNCHANGED <<running, thread, notified_events, file, loops, calls, posts, delivered>>

(* api_test: monitor.test_api_connection() *)
ApiTest ==
    /\ DirectCalls < MaxDirectCalls
    /\ \E r \in TestResponses :
        /\ recent_logs' = LogAll(recent_logs, TestApiConnection(r).entries)
        /\ direct' = [op |-> "test_api_connection", n |-> DirectCalls + 1, arg |-> r,
                      result |-> TestApiConnection(r).result]
    /\ UNCHANGED <<running, thread, notified_events, stats, file, loops, calls, posts,
                   delivered>>

NextTest == ApiTest

InitTest == InitWith(InitFiles)

SpecTest == InitTest /\ [][NextTest]_vars

----------------------------------------------------------------------------
(* One loop that keeps meeting the same matching event while the Telegram endpoint fails
   a bounded number of times *)

MaxFailures == 1      \* failed sends the endpoint may answer for one id

(* responses that all list event 1: alone, before another event, and twice *)
RetryResponses ==
    { Http(200, NoText, TRUE, <<>>, WellFormed(evs)) :
        evs \in { <<EvUnder(1)>>, <<EvUnder(1), EvUnder(2)>>, <<EvUnder(1), EvUnder(1)>> } }

(* the sends about id i that returned False *)
Failures(i) == posts[i] - delivered[i]

(* the endpoint succeeds once it has failed MaxFailures times for the id of the message *)
RetryEnv ==
    [responses |-> RetryResponses,
     telegram |-> IF /\ loops[0].message.id # JNull
                     /\ Failures(loops[0].message.id.n) >= MaxFailures
                  THEN {"ok"} ELSE TelegramOutcomes,
     saves |-> SaveOutcomes]

NextRetry ==
    \/ StartBackgroundMonitoring
    \/ StartStep(0)
    \/ LoopStep(0, RetryEnv)

InitRetry == InitWith({FileMissing})

(* the loop thread is a daemon thread of a live process: the scheduler runs it, its
   request and its sleep return *)
SpecRetry ==
    InitRetry /\ [][NextRetry]_vars
    /\ WF_vars(StartBackgroundMonitoring \/ StartStep(0))
    /\ WF_vars(LoopStep(0, RetryEnv))

----------------------------------------------------------------------------
(* The bootstrap start racing with one /api/start, while the API lists two matching
   events *)

RaceEnv ==
    [responses |-> { Http(200, NoText, TRUE, <<>>, WellFormed(<<EvUnder(1), EvUnder(2)>>)) },
     telegram |-> {"ok"}, saves |-> {"ok"}]

NextRace ==
    \/ StartBackgroundMonitoring
    \/ ApiStart(1)
    \/ \E c \in {0, 1} : StartStep(c)
    \/ \E t \in {0, 1} : LoopStep(t, RaceEnv)

InitRace == InitWith({FileMissing})

SpecRace == InitRace /\ [][NextRace]_vars

----------------------------------------------------------------------------
(* The bootstrap start and one /api/start, then one /api/stop: no start() is called
   after stop() is *)

(* the client asks for the stop when the start() of /api/start is past its test of the
   flag, or was not called *)
StopAfterStart ==
    /\ calls[1] \in {"start_set", "start_thread", "done"}
    /\ ApiStop(2)

StopThreadStep ==
    \/ \E c \in {0, 1} : StartStep(c)
    \/ StopStep(2)
    \/ \E t \in {0, 1} : LoopStep(t, PlainEnv)

NextStop ==
    \/ StartBackgroundMonitoring
    \/ ApiStart(1)
    \/ StopAfterStart
    \/ StopThreadStep

InitStop == InitWith({FileMissing})

(* the threads of the process are scheduled, and the request in flight and the sleep
   return *)
SpecStop == InitStop /\ [][NextStop]_vars /\ WF_vars(StopThreadStep)

----------------------------------------------------------------------------
(* Vocabulary of the properties *)

(* the names of the drawn events that the pattern of the monitor matches *)
MatchingNames == {NameUnder, NameUnderUpper}

NameMatches(e) ==
    /\ e.t = "obj"
    /\ "homeTeamName" \in DOMAIN e.f
    /\ e.f["homeTeamName"].t = "str"
    /\ e.f["homeTeamName"].s \in MatchingNames

HasId(e) == e.t = "obj" /\ "id" \in DOMAIN e.f

Current(t) == loops[t].events[loops[t].idx]

(* this step is thread t handling its current event in process_event *)
Handles(t) == loops[t].pc = "event" /\ loops'[t] # loops[t]

(* this step is thread t receiving the answer to its API request *)
Receives(t) == loops[t].pc = "request" /\ loops'[t].pc # "request"

(* this step is thread t's send_telegram_message returning *)
SendReturns(t) == loops[t].pc = "sending" /\ loops'[t].pc # "sending"
EventReturns(t) ==
    \/ loops[t].pc = "sending" /\ loops'[t].pc \notin {"sending", "saving"}
    \/ loops[t].pc = "saving" /\ loops'[t].pc # "saving"

Iterating(t) == loops[t].pc \in {"request", "event", "sending", "saving", "endcycle"}

LastEntry == recent_logs[Len(recent_logs)]

----------------------------------------------------------------------------
(* C1. Deduplication: when process_event handles an event whose homeTeamName matches
   the pattern and whose id is already in notified_events, it does not call
   send_telegram_message, returns False and leaves the state alone; so a polling cycle
   that repeats a response whose ids are all notified sends nothing for them. *)
C1_Dedup ==
    [][\A t \in Threads :
          (/\ Handles(t)
           /\ NameMatches(Current(t))
           /\ HasId(Current(t))
           /\ Current(t).f["id"] \in notified_events)
          => /\ loops'[t].pc # "sending"
             /\ loops'[t].ret = "False"
             /\ loops'[t].new_events_found = loops[t].new_events_found
             /\ posts' = posts
             /\ notified_events' = notified_events]_vars

(* the second cycle handled the event that the first cycle notified, and sent nothing *)
C1_Witness ==
    /\ stats.total_requests = 2
    /\ loops[0].pc = "endcycle"
    /\ loops[0].events = <<EvUnder(1)>>
    /\ loops[0].ret = "False"
    /\ JNum(1) \in notified_events
    /\ posts[1] = 1
    /\ delivered[1] = 1

----------------------------------------------------------------------------
(* C2. Single polling loop: under any interleaving of start() and stop() calls at most
   one monitor_loop thread is inside an iteration at any time. *)
C2_SingleLoop == Cardinality({t \in Threads : Iterating(t)}) <= 1

----------------------------------------------------------------------------
(* C3. Cooperative stop: once stop() has returned RunState is Stopped, and a loop that
   stop() found in its inter-cycle sleep wakes, checks the flag at most once more and
   begins no further iteration. *)
C3_CooperativeStop ==
    [][/\ \A c \in Calls : (calls[c] = "stop_set" /\ calls'[c] = "done") => ~running'
       /\ \A t \in Threads :
             loops[t].stopped_asleep
             => /\ loops'[t].pc \in {"sleep", "check", "done"}
                /\ (loops[t].pc = "check" /\ loops'[t].pc # "check"
                    => stats'.total_requests = stats.total_requests)]_vars

----------------------------------------------------------------------------
(* C4. The polling loop is exception-opaque: the thread leaves monitor_loop only from
   the test of the while, with the run flag False; an iteration that fails (transport
   exception, non-200 status, unexpected JSON shape) records last_error when it raises or
   is refused, and sleeps; every other outcome sleeps too; after the sleep the flag is
   tested again and, while it is True, the next request is issued. *)
C4_ExceptionOpaque ==
    [][\A t \in Threads :
          /\ (loops[t].pc # "done" /\ loops'[t].pc = "done")
             => (loops[t].pc = "check" /\ ~running)
          /\ (Receives(t) /\ loops'[t].resp.kind = "exc")
             => /\ loops'[t].pc = "sleep"
                /\ stats'.last_error = MsgExc("Error in monitoring loop", "RequestException")
                /\ LastEntry' = Entry("ERROR", stats'.last_error)
          /\ (Receives(t) /\ loops'[t].resp.kind = "http" /\ loops'[t].resp.status # 200)
             => /\ loops'[t].pc = "sleep"
                /\ stats'.last_error.text \in
                      {"API falhou com status", "Bloqueio geografico ativo",
                       "Acesso negado (403) - possivel bloqueio geografico"}
                /\ LastEntry' = Entry("ERROR", stats'.last_error)
          /\ Receives(t) => loops'[t].pc \in {"sleep", "endcycle", "event"}
          /\ loops[t].pc \in {"event", "sending", "saving"}
             => loops'[t].pc \in {"event", "sending", "saving", "endcycle"}
          /\ loops[t].pc = "endcycle" => loops'[t].pc \in {"endcycle", "sleep"}
          /\ loops[t].pc = "sleep" => loops'[t].pc \in {"sleep", "check"}
          /\ (loops[t].pc = "check" /\ running) => loops'[t].pc \in {"check", "request"}]_vars

(* a request failed with a transport exception and the loop has issued the next one *)
C4_Witness ==
    /\ running
    /\ loops[0].pc = "request"
    /\ stats.total_requests = 2
    /\ stats.successful_requests = 0
    /\ stats.last_error = MsgExc("Error in monitoring loop", "RequestException")

----------------------------------------------------------------------------
(* C5. An id enters notified_events only in the step in which send_telegram_message
   returns True for the message about that id (the endpoint answered 200); when the send
   returns False the id is not added, the file is not written and process_event returns
   False. *)
C5_AddOnlyAfterSend ==
    [][/\ \A id \in notified_events' \ notified_events :
             \E t \in Threads :
                /\ SendReturns(t)
                /\ loops[t].message.id = id
                /\ delivered'[id.n] = delivered[id.n] + 1
                /\ loops'[t].pc = "saving" \/ loops'[t].ret = "True"
       /\ \A t \in Threads :
             (SendReturns(t) /\ delivered' = delivered)
             => /\ notified_events' = notified_events
                /\ file' = file
                /\ loops'[t].ret = "False"
                /\ stats'.notifications_sent = stats.notifications_sent]_vars

(* a send for event 1 failed: the id is not in the set and the file was not written *)
C5_Witness ==
    /\ loops[0].ret = "False"
    /\ posts[1] = 1
    /\ delivered[1] = 0
    /\ JNum(1) \notin notified_events
    /\ file = FileMissing

----------------------------------------------------------------------------
(* C6. New-match accounting: when a polling cycle completes, events_found increases by
   the number of ids the cycle added to notified_events, which is the number of its
   send_telegram_message calls that returned True. *)
C6_NewMatchAccounting ==
    [][\A t \in Threads :
          (loops[t].pc = "endcycle" /\ loops'[t].pc = "sleep")
          => /\ stats'.events_found - stats.events_found = loops[t].grew
             /\ loops[t].grew = loops[t].sent]_vars

----------------------------------------------------------------------------
(* C7, as claimed. For every event whose homeTeamName does not match the pattern
   (missing, empty or non-string name and missing id included) process_event sends no
   notification and changes no state: notified_events, the file, the counters and the log
   buffer stay as they are. *)
C7_NoMatchNoChange ==
    [][\A t \in Threads :
          (Handles(t) /\ ~NameMatches(Current(t)))
          => /\ loops'[t].pc # "sending"
             /\ UNCHANGED <<notified_events, file, stats, recent_logs, posts, delivered>>]_vars

NameIsText(e) ==
    /\ e.t = "obj"
    /\ ("homeTeamName" \in DOMAIN e.f => e.f["homeTeamName"].t = "str")

(* C7, amended. For every event whose homeTeamName does not match the pattern,
   process_event sends no notification, returns False and leaves notified_events, the
   file and the counters unchanged; the log buffer is unchanged when the name is a string
   or is missing (with or without an id), and gains exactly one ERROR entry
   "Error processing event" when the name is not a string or the event is not an object. *)
C7_NoMatchNoNotification ==
    [][\A t \in Threads :
          (Handles(t) /\ ~NameMatches(Current(t)))
          => /\ loops'[t].pc # "sending"
             /\ loops'[t].ret = "False"
             /\ loops'[t].new_events_found = loops[t].new_events_found
             /\ UNCHANGED <<notified_events, file, stats, posts, delivered>>
             /\ recent_logs' =
                  IF NameIsText(Current(t)) THEN recent_logs
                  ELSE Log(recent_logs, "ERROR",
                           MsgExc("Error processing event",
                                  IF Current(t).t = "obj" THEN "TypeError"
                                  ELSE "AttributeError"))]_vars

(* an event whose homeTeamName is null was handled: one ERROR entry, nothing sent *)
C7_Witness ==
    /\ loops[0].pc = "endcycle"
    /\ loops[0].events = <<EvNullName(1)>>
    /\ loops[0].ret = "False"
    /\ LastEntry = Entry("ERROR", MsgExc("Error processing event", "TypeError"))
    /\ posts[1] = 0

----------------------------------------------------------------------------
(* C8. Non-200 response: the iteration has counted the request in total_requests (and
   only there) when it issued it; on the answer it leaves successful_requests alone, does
   not parse the body, processes no event, sends nothing and leaves notified_events and
   the file unchanged; it logs and records as last_error a geographic-block message for
   403 and "API falhou com status S" otherwise, and sleeps. *)
C8_Non200 ==
    [][\A t \in Threads :
          /\ (loops[t].pc = "check" /\ loops'[t].pc = "request")
             => /\ stats'.total_requests = stats.total_requests + 1
                /\ stats'.successful_requests = stats.successful_requests
          /\ (Receives(t) /\ loops'[t].resp.kind = "http" /\ loops'[t].resp.status # 200)
             => LET st == loops'[t].resp.status IN
                /\ stats'.total_requests = stats.total_requests
                /\ stats'.successful_requests = stats.successful_requests
                /\ loops'[t].events = <<>>
                /\ loops'[t].pc = "sleep"
                /\ UNCHANGED <<notified_events, file, posts, delivered>>
                /\ IF st = 403
                   THEN stats'.last_error \in
                           {Msg("Bloqueio geografico ativo", 0),
                            Msg("Acesso negado (403) - possivel bloqueio geografico", 0)}
                   ELSE stats'.last_error = Msg("API falhou com status", st)
                /\ recent_logs' =
                      LogAll(recent_logs,
                             <<Entry("WARNING", Msg("Requisicao direta retornou status", st)),
                               Entry("ERROR", stats'.last_error)>>)]_vars

(* a 403 whose body names Brazil was answered to the second request *)
C8_Witness ==
    /\ loops[0].pc = "sleep"
    /\ loops[0].resp.kind = "http"
    /\ loops[0].resp.status = 403
    /\ loops[0].resp.text = TextBrazil
    /\ stats.last_error = Msg("Bloqueio geografico ativo", 0)
    /\ stats.total_requests = 2
    /\ stats.successful_requests = 1

----------------------------------------------------------------------------
(* C9. Malformed body: a 200 answer whose body is not JSON, also after stripping one BOM
   and/or the prefix ")]}',\n", raises nothing: the warning is logged, the event sequence
   is empty and the cycle goes on to its end with nothing sent; a body that is JSON once
   one BOM and/or the prefix are stripped yields the events of the stripped body. *)
Strippable == { <<>>, <<"BOM">>, <<"PFX">>, <<"BOM", "PFX">>, <<"PFX", "BOM">> }

Undecodable(r) == r.payload.t = "garbage" \/ r.pre \notin Strippable

C9_MalformedBody ==
    [][\A t \in Threads :
          (Receives(t) /\ loops'[t].resp.kind = "http" /\ loops'[t].resp.status = 200)
          => LET r == loops'[t].resp
                 good == Entry("INFO", Msg("Sucesso com requisicao direta!", 0))
             IN
             /\ Undecodable(r)
                => /\ loops'[t].events = <<>>
                   /\ loops'[t].pc = "endcycle"
                   /\ loops'[t].new_events_found = 0
                   /\ stats'.last_error = stats.last_error
                   /\ UNCHANGED <<notified_events, file, posts, delivered>>
                   /\ recent_logs' =
                         LogAll(recent_logs,
                                <<good, Entry("WARNING", Msg("Response is not valid JSON", 0))>>)
             /\ \A evs \in SeqsUpTo2(RichEvents) :
                   (r.payload = WellFormed(evs) /\ r.pre \in Strippable)
                   => /\ loops'[t].events = evs
                      /\ recent_logs' = LogAll(recent_logs, <<good>>)]_vars

(* a body with the prefix and then a BOM before its JSON was decoded to its event *)
C9_Witness ==
    /\ loops[0].pc = "event"
    /\ loops[0].resp.kind = "http"
    /\ loops[0].resp.pre = <<"PFX", "BOM">>
    /\ loops[0].events = <<EvUnder(1)>>

----------------------------------------------------------------------------
(* C10. Defensive descent: for every decoded JSON value, whatever its shape, extracting
   data.countries[0].tournaments[0].events raises no exception, and for a value in which
   a key is missing or null or an array is empty it yields the empty event sequence and
   logs the WARNING "No events found in API response". *)
C10_DefensiveDescent ==
    [][\A t \in Threads :
          (/\ Receives(t)
           /\ loops'[t].resp.kind = "http"
           /\ loops'[t].resp.status = 200
           /\ ~Undecodable(loops'[t].resp))
          => /\ loops'[t].pc \in {"endcycle", "event"}
             /\ stats'.last_error = stats.last_error
             /\ loops'[t].resp.payload \in OddShapes
                => /\ loops'[t].events = <<>>
                   /\ LastEntry' = Entry("WARNING", Msg("No events found in API response", 0))]_vars

----------------------------------------------------------------------------
(* C11. The log buffer never holds more than 100 entries; an append to the full buffer
   evicts the oldest entry, so the buffer always holds the most recent entries (all of
   them up to 100, exactly the last 100 after more than 100 appends) in the order in
   which they were logged, and get_recent_logs returns them oldest first. *)
AllLogged == <<LoadNotifiedEvents(file).entry>> \o [k \in 1..Appends |-> NumberedEntry(k)]

LastLogged ==
    IF Len(AllLogged) <= 100 THEN AllLogged
    ELSE SubSeq(AllLogged, Len(AllLogged) - 99, Len(AllLogged))

C11_LogBuffer ==
    /\ Len(recent_logs) <= 100
    /\ recent_logs = LastLogged
    /\ direct.op = "get_recent_logs" => direct.result = LastLogged

(* 150 calls of log() after the entry of the constructor: entries 51 to 150 are read *)
C11_Witness ==
    /\ direct.op = "get_recent_logs"
    /\ direct.n = 150
    /\ Len(direct.result) = 100
    /\ direct.result[1] = NumberedEntry(51)
    /\ direct.result[100] = NumberedEntry(150)

----------------------------------------------------------------------------
(* C12. Round trip of the notified set: load_notified_events called right after a
   save_notified_events that succeeded with notified_events = S leaves notified_events
   equal to S; load_notified_events on a missing or undecodable file leaves the empty
   set, and logs instead of raising. *)
C12_RoundTrip ==
    [][direct'.op = "load_notified_events" /\ direct' # direct
       => /\ (direct.op = "save_notified_events" /\ direct.outcome = "ok")
             => /\ notified_events' = direct.set
                /\ notified_events' = notified_events
          /\ file.kind \in {"missing", "corrupt"}
             => /\ notified_events' = {}
                /\ Len(recent_logs') = Len(recent_logs) + 1]_vars

(* three ids of three types were saved over a corrupt file and loaded back *)
C12_Witness ==
    /\ direct.op = "load_notified_events"
    /\ direct.n = 2
    /\ notified_events = {JNum(1), JStr(<<"1">>), JNull}
    /\ file.kind = "json"
    /\ recent_logs[1].level = "ERROR"
    /\ LastEntry = Entry("INFO", Msg("Loaded previously notified events", 3))

----------------------------------------------------------------------------
(* What find_odd_value meets when it scans event e, each with its place in the scan
   (10 * market + option; 0 for the markets themselves, 10 * market for its options):
   the odds carried by the options, and the points where the traversal raises *)
OddsCarried(e) ==
    IF e.t # "obj" \/ "markets" \notin DOMAIN e.f \/ e.f["markets"].t # "arr" THEN {}
    ELSE LET ms == e.f["markets"].a IN
         { [at |-> 10 * i + j, odd |-> ms[i].f["options"].a[j].f["odd"]] :
             <<i, j>> \in { p \in (1..Len(ms)) \X (1..2) :
                 /\ ms[p[1]].t = "obj"
                 /\ "options" \in DOMAIN ms[p[1]].f
                 /\ ms[p[1]].f["options"].t = "arr"
                 /\ p[2] <= Len(ms[p[1]].f["options"].a)
                 /\ ms[p[1]].f["options"].a[p[2]].t = "obj"
                 /\ "odd" \in DOMAIN ms[p[1]].f["options"].a[p[2]].f } }

ScanRaises(e) ==
    IF e.t # "obj" THEN {0}
    ELSE IF "markets" \notin DOMAIN e.f THEN {}
    ELSE IF e.f["markets"].t = "null" THEN {0}
    ELSE IF e.f["markets"].t # "arr" THEN {}
    ELSE LET ms == e.f["markets"].a IN
         { 10 * i : i \in { k \in 1..Len(ms) :
                              \/ ms[k].t # "obj"
                              \/ /\ "options" \in DOMAIN ms[k].f
                                 /\ ms[k].f["options"].t # "arr" } }
         \cup { 10 * p[1] + p[2] : p \in { q \in (1..Len(ms)) \X (1..2) :
                 /\ ms[q[1]].t = "obj"
                 /\ "options" \in DOMAIN ms[q[1]].f
                 /\ ms[q[1]].f["options"].t = "arr"
                 /\ q[2] <= Len(ms[q[1]].f["options"].a)
                 /\ ms[q[1]].f["options"].a[q[2]].t # "obj" } }

(* the value the claim names: the first odd in scan order that passes the test, unless
   the traversal raises before it *)
FirstOdd(e, Passes(_)) ==
    LET hits == { c \in OddsCarried(e) : Passes(c.odd) }
        stops == { c.at : c \in hits } \cup ScanRaises(e)
    IN IF stops = {} THEN NotAvailable
       ELSE LET first == CHOOSE a \in stops : \A b \in stops : a <= b
            IN IF first \in ScanRaises(e) THEN NotAvailable
               ELSE (CHOOSE c \in hits : c.at = first).odd

NonEmpty(v) == v # JNull /\ v # JStr(<<>>)

TakenAsTrue(v) == v \notin {JNull, JNum(0), JStr(<<>>), EmptyArr, EmptyObj}

(* C13, as claimed. find_odd_value returns the first odd that is not empty (not null,
   not the empty string), scanning markets in order and options in order within each
   market, and "N/D" when there is none, when markets or options are absent and when
   the traversal raises. *)
C13_FirstNonEmptyOdd ==
    direct.op = "find_odd_value" => direct.result = FirstOdd(direct.arg, NonEmpty)

(* C13, amended. find_odd_value returns the first odd that Python takes as true (not
   null, not 0, not the empty string), scanning markets in order and options in order
   within each market; it returns "N/D" when no option carries such an odd, when
   markets or options are absent and when the traversal raises before one is found. *)
C13_FirstTruthyOdd ==
    direct.op = "find_odd_value"
    => /\ direct.result = FirstOdd(direct.arg, TakenAsTrue)
       /\ (direct.arg.t # "obj" \/ "markets" \notin DOMAIN direct.arg.f)
          => direct.result = NotAvailable
       /\ direct.result \in {NotAvailable} \cup { c.odd : c \in OddsCarried(direct.arg) }

(* the first market has no options, the second an empty odd and then the odd 2 *)
C13_Witness ==
    /\ direct.op = "find_odd_value"
    /\ direct.arg = Obj1("markets", JArr(<<EmptyObj,
                        Obj1("options", JArr(<<Obj1("odd", JStr(<<>>)), Obj1("odd", JNum(2))>>))>>))
    /\ direct.result = JNum(2)

----------------------------------------------------------------------------
(* C14. test_api_connection is a pure diagnostic: whatever the API answers, and when the
   request fails, it sends no Telegram message, adds nothing to notified_events, does not
   write the file and changes no entry of stats; it only appends entries to the log
   buffer, and it returns a result dictionary (with success, status_code and message)
   instead of raising. *)
C14_PureDiagnostic ==
    [][direct'.op = "test_api_connection" /\ direct' # direct
       => /\ UNCHANGED <<notified_events, file, stats, posts, delivered, running, thread,
                         loops, calls>>
          /\ Len(recent_logs') > Len(recent_logs)
          /\ SubSeq(recent_logs', 1, Len(recent_logs)) = recent_logs
          /\ {"success", "status_code", "message"} \subseteq direct'.result.keys
          /\ direct'.result.success = (direct'.arg.kind = "http" /\ direct'.arg.status = 200)
          /\ direct'.arg.kind = "exc" => direct'.result.status_code = 0]_vars

(* the test met a transport failure, then a response with one matching event *)
C14_Witness ==
    /\ direct.op = "test_api_connection"
    /\ direct.n = 2
    /\ direct.arg.kind = "http"
    /\ direct.arg.payload = WellFormed(<<EvUnder(1)>>)
    /\ direct.result.success
    /\ direct.result.events_found = 1
    /\ \E i \in 1..Len(recent_logs) :
          recent_logs[i] = Entry("ERROR", MsgExc("API test failed", "RequestException"))
    /\ stats = InitStats
    /\ notified_events = {}
    /\ posts[1] = 0

----------------------------------------------------------------------------
(* C15. Block classification in test_api_connection: a 403 whose body contains "brazil"
   in any case yields success = False, the message of the confirmed regional block and
   blocked_region = True; in every other case (403 without the keyword, another status,
   200, transport failure) the result has no blocked_region. *)
NamesBrazil(text) == \E i \in 1..Len(text) : text[i] \in {"brazil", "Brazil", "BRAZIL"}

C15_BlockClassification ==
    direct.op = "test_api_connection"
    => IF direct.arg.kind = "http" /\ direct.arg.status = 403 /\ NamesBrazil(direct.arg.text)
       THEN /\ ~direct.result.success
            /\ direct.result.message = Msg("Bloqueio confirmado: Acesso restrito ao Brasil", 0)
            /\ "blocked_region" \in direct.result.keys
            /\ direct.result.blocked_region
       ELSE /\ "blocked_region" \notin direct.result.keys
            /\ direct.result.message # Msg("Bloqueio confirmado: Acesso restrito ao Brasil", 0)

(* a 403 whose body says BRAZIL in capitals was classified as the regional block *)
C15_Witness ==
    /\ direct.op = "test_api_connection"
    /\ direct.arg.kind = "http"
    /\ direct.arg.status = 403
    /\ direct.arg.text = <<"BRAZIL">>
    /\ direct.result.blocked_region
    /\ LastEntry = Entry("INFO", MsgOf("API test result",
                                       Msg("Bloqueio confirmado: Acesso restrito ao Brasil", 0)))

----------------------------------------------------------------------------
(* C16. Per-event isolation: an error raised while one event is processed (the event is
   not an object, its homeTeamName is not a string, a matching event has no id) is
   caught inside process_event, which logs it and returns False; an unparsable or
   missing date raises nothing and the raw date goes into the message. In each case the
   for loop goes on with the next event of the same response, the iteration's own error
   handler is not reached, and a later matching event whose id is not notified is sent. *)
Fails(e) ==
    \/ e.t # "obj"
    \/ ~NameIsText(e)
    \/ NameMatches(e) /\ ~HasId(e)

GoesOn(t) ==
    /\ loops'[t].events = loops[t].events
    /\ loops'[t].idx = loops[t].idx + 1
    /\ loops'[t].pc = IF loops[t].idx < Len(loops[t].events) THEN "event" ELSE "endcycle"

C16_PerEventIsolation ==
    [][\A t \in Threads :
          /\ (Handles(t) /\ Fails(Current(t)))
             => /\ GoesOn(t)
                /\ loops'[t].ret = "False"
                /\ LastEntry'.level = "ERROR"
                /\ LastEntry'.message.text = "Error processing event"
                /\ stats' = stats
          /\ (Handles(t) /\ ~Fails(Current(t)))
             => /\ recent_logs' = recent_logs
                /\ \/ GoesOn(t) /\ loops'[t].ret = "False"
                   \/ /\ loops'[t].pc = "sending"
                      /\ loops'[t].events = loops[t].events
                      /\ loops'[t].idx = loops[t].idx
          /\ (/\ Handles(t)
              /\ NameMatches(Current(t))
              /\ HasId(Current(t))
              /\ Current(t).f["id"] \notin notified_events)
             => /\ loops'[t].pc = "sending"
                /\ loops'[t].message.id = Current(t).f["id"]
                /\ Current(t) = EvBadDate(2) => loops'[t].message.date = JStr(<<"tomorrow">>)
                /\ Current(t) = EvDated(2)
                   => loops'[t].message.date = JStr(<<"01/01/2025 12:00:00">>)
                /\ "date" \notin DOMAIN Current(t).f => loops'[t].message.date = NotAvailable
          /\ EventReturns(t) => GoesOn(t)]_vars

(* a matching event without id failed, and the matching event after it was notified *)
C16_Witness ==
    /\ loops[0].pc = "endcycle"
    /\ loops[0].events = <<EvUnderNoId, EvBadDate(2)>>
    /\ loops[0].new_events_found = 1
    /\ JNum(2) \in notified_events
    /\ delivered[2] = 1
    /\ \E i \in 1..Len(recent_logs) :
          recent_logs[i] = Entry("ERROR", MsgExc("Error processing event", "KeyError"))

----------------------------------------------------------------------------
(* this step is thread t calling send_telegram_message for the event it handles *)
Notifies(t) == Handles(t) /\ loops'[t].pc = "sending"

(* C17, first part. Retry: a matching event with an id that is not in notified_events is
   notified whenever it is handled, whatever the sends before it returned; and once a
   send about event 1 has returned False, with event 1 in every response and the
   endpoint failing MaxFailures times at most, id 1 is eventually in notified_events. *)
C17_RetryUntilSuccess ==
    /\ [][\A t \in Threads :
             (/\ Handles(t)
              /\ NameMatches(Current(t))
              /\ HasId(Current(t))
              /\ Current(t).f["id"] \notin notified_events)
             => Notifies(t)]_vars
    /\ (Failures(1) > 0) ~> (JNum(1) \in notified_events)

(* C17, last part. Once an id is in notified_events, no message about it is sent any
   more: no send_telegram_message call about it is answered. *)
C17_NeverSentAgain ==
    [][\A i \in EventIds :
          JNum(i) \in notified_events => posts'[i] = posts[i]]_vars

(* a send about event 1 failed in the first cycle and event 1 was notified in the second *)
C17_Witness ==
    /\ Failures(1) = 1
    /\ delivered[1] = 1
    /\ JNum(1) \in notified_events
    /\ stats.total_requests = 2
    /\ loops[0].pc = "endcycle"

----------------------------------------------------------------------------
(* thread t is inside process_event, past the check of the event *)
InProcessEvent(t) == loops[t].pc \in {"sending", "saving"}

(* C19. Persistence follows every addition: whenever no process_event call is in
   progress and the last save of no loop has failed, the ids read back from the file are
   the ids of notified_events. *)
C19_PersistenceFollows ==
    (/\ \A t \in Threads : ~InProcessEvent(t)
     /\ \A t \in Threads : loops[t].saved # "failed")
    => LoadNotifiedEvents(file).set = notified_events

(* both events of a response were notified and saved: the file holds both ids *)
C19_Witness ==
    /\ notified_events = {JNum(1), JNum(2)}
    /\ LoadNotifiedEvents(file).set = {JNum(1), JNum(2)}
    /\ \A t \in Threads : loops[t].pc \notin {"sending", "saving"}
    /\ loops[0].saved = "ok"

----------------------------------------------------------------------------
(* C20. At most one successful notification per event id: for every id,
   send_telegram_message returns True for a message about that id at most once. *)
C20_AtMostOnce == \A i \in EventIds : delivered[i] <= 1

(* a response listed event 1 twice: one send returned True and the second occurrence was
   skipped *)
C20_Witness ==
    /\ loops[0].events = <<EvUnder(1), EvUnder(1)>>
    /\ loops[0].pc = "endcycle"
    /\ delivered[1] = 1
    /\ posts[1] = 1

----------------------------------------------------------------------------
(* C18. Stop eventually takes effect: with no start() called after stop(), a loop that
   stop() found in its sleep terminates at its next test of the flag, without beginning
   a further iteration. *)
C18_StopTakesEffect ==
    [][\A t \in Threads :
          (loops[t].stopped_asleep /\ loops[t].pc = "check" /\ loops'[t].pc # "check")
          => loops'[t].pc = "done"]_vars

(* stop() found the loop asleep and the loop has terminated *)
C18_Witness ==
    /\ loops[0].stopped_asleep
    /\ loops[0].pc = "done"
    /\ ~running

====
